---- MODULE Spec2Model ----
(***************************************************************************)
(* LevelDB preferences bridge (jni/db_jni.cpp): the open/recovery protocol  *)
(* of dbOpen, the batch operations and the prefix-bounded scans.            *)
(*                                                                          *)
(* The key-value engine (leveldb::DB, WriteBatch, Iterator) is not part of  *)
(* the bridge; it is modelled by its documented contract: keys ordered      *)
(* bytewise, Write applies a batch atomically and in staging order, an      *)
(* iterator reads the store as it was when the iterator was created.        *)
(***************************************************************************)
EXTENDS Integers, Sequences, FiniteSets, TLC

VARIABLES
  \* ---- dbOpen (one run of the handler) ----
  pc,            \* position inside dbOpen: "idle", "open", "repair", "reopen", "done"
  status,        \* the local `status`
  attempt_count, \* the local `attempt_count`
  error,         \* the local `error` (text of a status), NoText before line 134
  handle,        \* the returned jlong: 0, DbPtr, or NotReturned
  hasHook,       \* GetMethodID(cls, "onFatalError", ...) != nullptr
  hookLog,       \* diagnostics delivered to the Java onFatalError method
  thrown,        \* diagnostics raised as AssertionError by onFatalError's else branch
  fatalCalls,    \* number of calls of onFatalError (ON_ERROR)
  openCalls,     \* number of calls of leveldb::DB::Open
  repairCalls,   \* number of calls of leveldb::RepairDB
  repairStatus,  \* what RepairDB returned, NoStatus before it ran
  structAt,      \* openCalls when the retry loop was left with a failed status, -1 before
  waited,        \* milliseconds spent in usleep so far
  sleeps,        \* the usleep durations of this run, in milliseconds, in order
  abortWait,     \* the local `total_wait` of the iteration that aborted, -1 otherwise
  \* ---- an open database, one caller-held batch ----
  store,         \* committed contents: key -> value or Absent
  batch,         \* the caller-held WriteBatch: sequence of staged operations
  last,          \* the last bridge call: name, arguments, return value, raised exception
  \* ---- one prefix cursor (DatabaseIterator) ----
  cursor,        \* the DatabaseIterator behind the caller's handle, and whether it is allocated
  scan           \* the walk of that cursor: the store when it was opened, the keys presented

openVars == <<pc, status, attempt_count, error, handle, hasHook, hookLog, thrown,
              fatalCalls, openCalls, repairCalls, repairStatus, structAt, waited,
              sleeps, abortWait>>
dbVars == <<store, batch, last>>
cursorVars == <<cursor, scan>>
vars == <<openVars, dbVars, cursorVars>>

(***************************************************************************)
(* leveldb::Status as dbOpen reads it: a code and a message text           *)
(***************************************************************************)
OkStatus == [code |-> "OK", msg |-> ""]
NoStatus == [code |-> "none", msg |-> ""]
FailStatuses == [code : {"IOError", "Corruption"}, msg : {"Try again", "other"}]
Statuses == {OkStatus} \cup FailStatuses

\* status.StatusText(): the code's name followed by the message
StatusText(s) == <<s.code, s.msg>>
NoText == <<>>

\* line 120: !status.ok() && status.IsIOError() && StatusText().find("Try again") != npos
IsTransientOpenError(s) ==
  /\ s # OkStatus
  /\ s.code = "IOError"
  /\ StatusText(s)[2] = "Try again"

\* line 121: the factor of `100 * attempt_count++`
WaitPerAttempt == 100
\* line 122: `total_wait < 5000`
MaxTotalWait == 5000
\* line 123: usleep(100000), in microseconds
SleepMicros == 100000

\* line 121: size_t total_wait = 100 * attempt_count++ (the value before the increment)
TotalWait(count) == WaitPerAttempt * count

MutRetryAllowed(total_wait) == total_wait <= MaxTotalWait
\* line 122: retry while the accumulated wait is below the cap
RetryAllowed(total_wait) == total_wait < MaxTotalWait

MutSleepMillis(count) == (SleepMicros \div 1000) * (count + 1)
\* line 123: the duration slept before the next attempt; it does not read the count
SleepMillis(count) == SleepMicros \div 1000

NotReturned == -1
DbPtr == 1


(***************************************************************************)
(* onFatalError (ON_ERROR): deliver the diagnostic to the Java method when  *)
(* it resolves, raise it as an AssertionError otherwise                     *)
(***************************************************************************)
onFatalError(message) ==
  /\ fatalCalls' = fatalCalls + 1
  /\ IF hasHook
       THEN hookLog' = Append(hookLog, message) /\ thrown' = thrown
       ELSE thrown' = Append(thrown, message) /\ hookLog' = hookLog

NoFatalError == UNCHANGED <<fatalCalls, hookLog, thrown>>

(***************************************************************************)
(* dbOpen: one step per engine call                                         *)
(***************************************************************************)
\* lines 118-135: one iteration of the do/while loop around DB::Open, and what
\* follows the loop up to the next engine call
dbOpenAttempt(s) ==
  /\ pc = "open"
  /\ status' = s
  /\ openCalls' = openCalls + 1
  /\ UNCHANGED <<hasHook, repairCalls, repairStatus, dbVars, cursorVars>>
  /\ IF IsTransientOpenError(s)
       THEN LET total_wait == TotalWait(attempt_count) IN
            /\ attempt_count' = attempt_count + 1
            /\ UNCHANGED <<error, structAt>>
            /\ IF RetryAllowed(total_wait)
                 THEN /\ waited' = waited + SleepMillis(attempt_count')
                      /\ sleeps' = Append(sleeps, SleepMillis(attempt_count'))
                      /\ pc' = "open"
                      /\ NoFatalError
                      /\ UNCHANGED <<handle, abortWait>>
                 ELSE /\ onFatalError(StatusText(s) \o <<"total_wait", total_wait>>)
                      /\ handle' = 0
                      /\ abortWait' = total_wait
                      /\ pc' = "done"
                      /\ UNCHANGED <<waited, sleeps>>
       ELSE /\ UNCHANGED <<attempt_count, waited, sleeps, abortWait>>
            /\ NoFatalError
            /\ IF s = OkStatus
                 THEN /\ handle' = DbPtr
                      /\ pc' = "done"
                      /\ UNCHANGED <<error, structAt>>
                 ELSE /\ error' = StatusText(s)
                      /\ structAt' = openCalls'
                      /\ pc' = "repair"
                      /\ UNCHANGED handle

MutdbOpenRepair(s) ==
  /\ pc = "repair"
  /\ status' = s
  /\ repairCalls' = repairCalls + 1
  /\ repairStatus' = s
  /\ UNCHANGED <<hasHook, attempt_count, error, structAt, waited, sleeps, abortWait,
                 openCalls, dbVars, cursorVars>>
  /\ NoFatalError
  /\ IF s # OkStatus
       THEN handle' = 0 /\ pc' = "done"
       ELSE pc' = "reopen" /\ UNCHANGED handle
\* lines 136-140 and, when repair failed, 148-152
dbOpenRepair(s) ==
  /\ pc = "repair"
  /\ status' = s
  /\ repairCalls' = repairCalls + 1
  /\ repairStatus' = s
  /\ UNCHANGED <<hasHook, attempt_count, error, structAt, waited, sleeps, abortWait,
                 openCalls, dbVars, cursorVars>>
  /\ IF s # OkStatus
       THEN /\ onFatalError(error)
            /\ handle' = 0
            /\ pc' = "done"
       ELSE /\ NoFatalError
            /\ pc' = "reopen"
            /\ UNCHANGED handle

MutdbOpenReopen(s) ==
  /\ pc = "reopen"
  /\ status' = s
  /\ openCalls' = openCalls + 1
  /\ UNCHANGED <<hasHook, attempt_count, structAt, waited, sleeps, abortWait,
                 repairCalls, repairStatus, dbVars, cursorVars>>
  /\ IF IsTransientOpenError(s)
       THEN /\ pc' = "open"
            /\ NoFatalError
            /\ UNCHANGED <<error, handle>>
       ELSE IF s # OkStatus
         THEN /\ error' = StatusText(s)
              /\ onFatalError(error')
              /\ handle' = 0
              /\ pc' = "done"
         ELSE /\ NoFatalError
              /\ handle' = DbPtr
              /\ pc' = "done"
              /\ UNCHANGED error
\* lines 141-152: the one open after a successful repair
dbOpenReopen(s) ==
  /\ pc = "reopen"
  /\ status' = s
  /\ openCalls' = openCalls + 1
  /\ UNCHANGED <<hasHook, attempt_count, structAt, waited, sleeps, abortWait,
                 repairCalls, repairStatus, dbVars, cursorVars>>
  /\ IF s # OkStatus
       THEN /\ error' = StatusText(s)
            /\ onFatalError(error')
            /\ handle' = 0
            /\ pc' = "done"
       ELSE /\ NoFatalError
            /\ handle' = DbPtr
            /\ pc' = "done"
            /\ UNCHANGED error


(***************************************************************************)
(* The engine's contract: ordered keys, atomic batch write, snapshot        *)
(* iteration                                                                *)
(***************************************************************************)
\* bytes: '1' is 1, 'a' is 2, 'b' is 3
KeySpace == {<<2>>, <<2, 3, 1>>, <<3>>}
Prefixes == {<<>>, <<2>>, <<2, 3>>}
Values == {<<>>, <<1>>}
Stores == UNION {[S -> Values] : S \in SUBSET KeySpace}

MinOf(a, b) == IF a < b THEN a ELSE b

\* BytewiseComparator: memcmp over the common length, then the shorter first
KeyLess(a, b) ==
  \E i \in 1..(MinOf(Len(a), Len(b)) + 1) :
    /\ \A j \in 1..(i - 1) : a[j] = b[j]
    /\ \/ i > Len(a) /\ i <= Len(b)
       \/ i <= Len(a) /\ i <= Len(b) /\ a[i] < b[i]

RECURSIVE SortedKeys(_)
\* the keys of a set in the engine's order
SortedKeys(S) ==
  IF S = {} THEN <<>>
  ELSE LET m == CHOOSE x \in S : \A y \in S \ {x} : KeyLess(x, y)
       IN <<m>> \o SortedKeys(S \ {m})

EnginePut(s, k, v) == [x \in DOMAIN s \cup {k} |-> IF x = k THEN v ELSE s[x]]
EngineDelete(s, k) == [x \in DOMAIN s \ {k} |-> s[x]]

PutOp(k, v) == [op |-> "Put", key |-> k, value |-> v]
DeleteOp(k) == [op |-> "Delete", key |-> k, value |-> <<>>]
BatchOps == {PutOp(k, v) : k \in KeySpace, v \in Values} \cup {DeleteOp(k) : k \in KeySpace}

RECURSIVE WriteBatchApply(_, _)
\* DB::Write with an ok status: the staged operations, in staging order
WriteBatchApply(s, b) ==
  IF b = <<>> THEN s
  ELSE LET o == Head(b)
           s1 == IF o.op = "Put" THEN EnginePut(s, o.key, o.value)
                 ELSE EngineDelete(s, o.key)
       IN WriteBatchApply(s1, Tail(b))

\* DB::Write: all of the batch on an ok status, nothing of it otherwise
EngineWrite(s, b, st) == IF st = OkStatus THEN WriteBatchApply(s, b) ELSE s

WriteFailure == [code |-> "IOError", msg |-> "other"]
WriteStatuses == {OkStatus, WriteFailure}

\* DB::NewIterator: it reads the store as it is now, in key order; pos is the
\* index of the current entry, Len(keys) + 1 when not Valid()
NewIterator(s) == [snap |-> s, keys |-> SortedKeys(DOMAIN s), pos |-> Len(SortedKeys(DOMAIN s)) + 1]
IterValid(it) == it.pos <= Len(it.keys)
IterKey(it) == it.keys[it.pos]
IterValue(it) == it.snap[it.keys[it.pos]]
IterNext(it) == [it EXCEPT !.pos = it.pos + 1]
\* Iterator::Seek: the first entry whose key is at or after the target
IterSeek(it, target) ==
  LET at == {i \in 1..Len(it.keys) : ~KeyLess(it.keys[i], target)}
  IN [it EXCEPT !.pos = IF at = {} THEN Len(it.keys) + 1
                        ELSE CHOOSE i \in at : \A j \in at : i <= j]
IterSeekToFirst(it) == [it EXCEPT !.pos = 1]


(***************************************************************************)
(* The bridge over an open database                                         *)
(***************************************************************************)
JNI_TRUE == 1
JNI_FALSE == 0
\* the jlong of the caller-held WriteBatch
BatchPtr == 2
\* the lengths the caller-held batch and a prefix array may reach
MaxBatchLen == 2
MaxPrefixes == 2

NoException == "none"
\* a finished call: its name, what it was aimed at ("db", "batch", "cursor"), the
\* prefixes it was given (a single prefix as an array of one), what it returned
\* and the Java exception it raised
Call(op, target, prefixes, ret, exc) ==
  [op |-> op, target |-> target, prefixes |-> prefixes, ret |-> ret, exc |-> exc,
   writes |-> 0, created |-> 0, released |-> 0, result |-> <<>>,
   type |-> "", key |-> <<>>, arg |-> <<>>, raised |-> <<>>, named |-> <<>>,
   engine |-> "none", staged |-> 0, stale |-> 0]

\* a call that returned a Java object (a key, an array of values): ret is 1 and
\* result holds its contents; ret is 0 for a null return
Returned(call, result) == [call EXCEPT !.ret = 1, !.result = result]

\* the engine calls a bridge call made: how many db->Put/Delete/Write it issued,
\* how many iterators it took with NewIterator and how many it deleted
EngineCalls(call, writes, created, released) ==
  [call EXCEPT !.writes = writes, !.created = created, !.released = released]

\* the process runs and dbOpen has returned the database
Live == pc = "done" /\ handle = DbPtr

\* key.ToString().compare(0, prefix.size(), prefix) == 0
StartsWith(key, prefix) ==
  SubSeq(key, 1, MinOf(Len(prefix), Len(key))) = prefix

RECURSIVE ScanWhilePrefix(_, _)
\* for (...; itr->Valid(); itr->Next()) { if (key starts with prefix) take it; else break; }
ScanWhilePrefix(it, prefix) ==
  IF ~IterValid(it) THEN <<>>
  ELSE IF StartsWith(IterKey(it), prefix)
         THEN <<IterKey(it)>> \o ScanWhilePrefix(IterNext(it), prefix)
         ELSE <<>>

RECURSIVE ScanAll(_)
\* for (itr->SeekToFirst(); itr->Valid(); itr->Next())
ScanAll(it) == IF ~IterValid(it) THEN <<>> ELSE <<IterKey(it)>> \o ScanAll(IterNext(it))

\* batch->Delete(key) for each key of a scan, in scan order
Deletes(keys) == [i \in 1..Len(keys) |-> DeleteOp(keys[i])]

MutdbPut(isBatch, key, value, st) ==
  /\ Live
  /\ store' = EngineWrite(store, <<PutOp(key, value)>>, st)
  /\ batch' = batch
  /\ last' = Call("dbPut", IF isBatch THEN "batch" ELSE "db", <<>>,
                  IF st = OkStatus THEN JNI_TRUE ELSE JNI_FALSE,
                  IF st = OkStatus THEN NoException ELSE "AssertionError")
  /\ UNCHANGED <<openVars, cursorVars>>
\* lines 763-776: dbPut, behind every dbPut<Type>
dbPut(isBatch, key, value, st) ==
  /\ Live
  /\ IF isBatch
       THEN /\ Len(batch) < MaxBatchLen
            /\ batch' = Append(batch, PutOp(key, value))
            /\ store' = store
            /\ last' = Call("dbPut", "batch", <<>>, JNI_TRUE, NoException)
       ELSE /\ store' = EngineWrite(store, <<PutOp(key, value)>>, st)
            /\ batch' = batch
            /\ last' = EngineCalls(
                         IF st # OkStatus
                           THEN Call("dbPut", "db", <<>>, JNI_FALSE, "AssertionError")
                           ELSE Call("dbPut", "db", <<>>, JNI_TRUE, NoException),
                         1, 0, 0)
  /\ UNCHANGED <<openVars, cursorVars>>

NotFoundStatus == [code |-> "NotFound", msg |-> ""]
\* lines 432-441
dbRemove(key, st) ==
  /\ Live
  /\ st = NotFoundStatus => key \notin DOMAIN store
  /\ store' = EngineWrite(store, <<DeleteOp(key)>>, st)
  /\ batch' = batch
  /\ last' = EngineCalls(
               IF st # OkStatus /\ st.code # "NotFound"
                 THEN Call("dbRemove", "db", <<>>, JNI_FALSE, "AssertionError")
                 ELSE Call("dbRemove", "db", <<>>, JNI_TRUE, NoException),
               1, 0, 0)
  /\ UNCHANGED <<openVars, cursorVars>>

\* lines 959-963
dbBatchRemove(key) ==
  /\ Live
  /\ Len(batch) < MaxBatchLen
  /\ batch' = Append(batch, DeleteOp(key))
  /\ store' = store
  /\ last' = Call("dbBatchRemove", "batch", <<>>, JNI_TRUE, NoException)
  /\ UNCHANGED <<openVars, cursorVars>>

\* lines 946-957: empty the batch, then stage a Delete for every stored key
dbBatchClear ==
  /\ Live
  /\ LET keys == ScanAll(IterSeekToFirst(NewIterator(store))) IN
     /\ Len(keys) <= MaxBatchLen
     /\ batch' = Deletes(keys)
  /\ store' = store
  /\ last' = EngineCalls(Call("dbBatchClear", "batch", <<>>, 0, NoException), 0, 1, 1)
  /\ UNCHANGED <<openVars, cursorVars>>

MutdbBatchPerformPartial(st) ==
  /\ Live
  /\ IF st # OkStatus
       THEN /\ store' = WriteBatchApply(store, SubSeq(batch, 1, Len(batch) - 1))
            /\ batch' = batch
            /\ last' = Call("dbBatchPerform", "batch", <<>>, JNI_FALSE, "AssertionError")
       ELSE /\ store' = WriteBatchApply(store, batch)
            /\ batch' = <<>>
            /\ last' = Call("dbBatchPerform", "batch", <<>>, JNI_TRUE, NoException)
  /\ UNCHANGED <<openVars, cursorVars>>
MutdbBatchPerformClear(st) ==
  /\ Live
  /\ store' = EngineWrite(store, batch, st)
  /\ batch' = <<>>
  /\ last' = IF st # OkStatus
               THEN Call("dbBatchPerform", "batch", <<>>, JNI_FALSE, "AssertionError")
               ELSE Call("dbBatchPerform", "batch", <<>>, JNI_TRUE, NoException)
  /\ UNCHANGED <<openVars, cursorVars>>
\* lines 929-939
dbBatchPerform(st) ==
  /\ Live
  /\ store' = EngineWrite(store, batch, st)
  /\ IF st # OkStatus
       THEN /\ batch' = batch
            /\ last' = EngineCalls(Call("dbBatchPerform", "batch", <<>>, JNI_FALSE,
                                        "AssertionError"), 1, 0, 0)
       ELSE /\ batch' = <<>>
            /\ last' = EngineCalls(Call("dbBatchPerform", "batch", <<>>, JNI_TRUE,
                                        NoException), 1, 0, 0)
  /\ UNCHANGED <<openVars, cursorVars>>

\* the operations a call put into the batch it then wrote
Staged(call, b) == [call EXCEPT !.staged = Len(b)]

MutdbClear(st) ==
  /\ Live
  /\ LET b == Deletes(ScanAll(IterNext(IterSeekToFirst(NewIterator(store))))) IN
     /\ store' = EngineWrite(store, b, st)
     /\ last' = Staged(EngineCalls(
                         IF st # OkStatus
                           THEN Call("dbClear", "db", <<>>, JNI_FALSE, "AssertionError")
                           ELSE Call("dbClear", "db", <<>>, JNI_TRUE, NoException),
                         1, 1, 1), b)
  /\ batch' = batch
  /\ UNCHANGED <<openVars, cursorVars>>
\* lines 414-430: a transient batch with a Delete for every stored key, written at once
dbClear(st) ==
  /\ Live
  /\ LET b == Deletes(ScanAll(IterSeekToFirst(NewIterator(store)))) IN
     /\ store' = EngineWrite(store, b, st)
     /\ last' = Staged(EngineCalls(
                         IF st # OkStatus
                           THEN Call("dbClear", "db", <<>>, JNI_FALSE, "AssertionError")
                           ELSE Call("dbClear", "db", <<>>, JNI_TRUE, NoException),
                         1, 1, 1), b)
  /\ batch' = batch
  /\ UNCHANGED <<openVars, cursorVars>>


MutPrefixScan(it, prefix) == ScanWhilePrefix(IterSeekToFirst(it), prefix)
MutPrefixScanStaged(it, prefix) ==
  ScanWhilePrefix(IterSeek(NewIterator(WriteBatchApply(store, batch)), prefix), prefix)
\* the keys a scan of one prefix visits, with an iterator positioned by Seek(prefix)
PrefixScan(it, prefix) == ScanWhilePrefix(IterSeek(it, prefix), prefix)

MutdbRemoveByPrefixWritesEmpty(batchPtr, prefix, st) ==
  /\ Live
  /\ LET target == IF batchPtr # 0 THEN "batch" ELSE "db"
         matched == PrefixScan(NewIterator(store), prefix)
         removed_count == Len(matched)
     IN IF prefix = <<>>
          THEN /\ last' = Call("dbRemoveByPrefix", target, <<prefix>>, -1,
                               "IllegalArgumentException")
               /\ UNCHANGED <<store, batch>>
          ELSE IF batchPtr # 0
            THEN /\ Len(batch) + removed_count <= MaxBatchLen
                 /\ batch' = batch \o Deletes(matched)
                 /\ store' = store
                 /\ last' = EngineCalls(Call("dbRemoveByPrefix", target, <<prefix>>,
                                             removed_count, NoException), 0, 1, 1)
            ELSE /\ store' = EngineWrite(store, Deletes(matched), st)
                 /\ batch' = batch
                 /\ last' = EngineCalls(
                              IF st # OkStatus
                                THEN Call("dbRemoveByPrefix", target, <<prefix>>, -1,
                                          "AssertionError")
                                ELSE Call("dbRemoveByPrefix", target, <<prefix>>,
                                          removed_count, NoException),
                              1, 1, 1)
  /\ UNCHANGED <<openVars, cursorVars>>
\* lines 443-478
dbRemoveByPrefix(batchPtr, prefix, st) ==
  /\ Live
  /\ LET target == IF batchPtr # 0 THEN "batch" ELSE "db"
         matched == PrefixScan(NewIterator(store), prefix)
         removed_count == Len(matched)
     IN IF prefix = <<>>
          THEN /\ last' = Call("dbRemoveByPrefix", target, <<prefix>>, -1,
                               "IllegalArgumentException")
               /\ UNCHANGED <<store, batch>>
          ELSE IF batchPtr # 0
            THEN /\ Len(batch) + removed_count <= MaxBatchLen
                 /\ batch' = batch \o Deletes(matched)
                 /\ store' = store
                 /\ last' = EngineCalls(Call("dbRemoveByPrefix", target, <<prefix>>,
                                             removed_count, NoException), 0, 1, 1)
            ELSE IF removed_count = 0
              THEN /\ last' = EngineCalls(Call("dbRemoveByPrefix", target, <<prefix>>, 0,
                                               NoException), 0, 1, 1)
                   /\ UNCHANGED <<store, batch>>
              ELSE /\ store' = EngineWrite(store, Deletes(matched), st)
                   /\ batch' = batch
                   /\ last' = EngineCalls(
                                IF st # OkStatus
                                  THEN Call("dbRemoveByPrefix", target, <<prefix>>, -1,
                                            "AssertionError")
                                  ELSE Call("dbRemoveByPrefix", target, <<prefix>>,
                                            removed_count, NoException),
                                1, 1, 1)
  /\ UNCHANGED <<openVars, cursorVars>>

RECURSIVE InsertSorted(_, _)
InsertSorted(sorted, x) ==
  IF sorted = <<>> THEN <<x>>
  ELSE IF KeyLess(x, Head(sorted)) THEN <<x>> \o sorted
       ELSE <<Head(sorted)>> \o InsertSorted(Tail(sorted), x)

RECURSIVE StdSort(_)
\* line 504: std::sort(prefixes.begin(), prefixes.end()), std::string's operator<
StdSort(seq) == IF seq = <<>> THEN <<>> ELSE InsertSorted(StdSort(Tail(seq)), Head(seq))

MutNonEmptyPrefixes(jKeyPrefixes) == jKeyPrefixes
\* lines 486-499: the prefixes of the array that are not empty
NonEmptyPrefixes(jKeyPrefixes) == SelectSeq(jKeyPrefixes, LAMBDA p : Len(p) > 0)

RECURSIVE MutScanPrefixes(_, _, _)
MutScanPrefixes(it, prefixes, seen) ==
  IF prefixes = <<>> THEN <<>>
  ELSE LET found == SelectSeq(PrefixScan(it, Head(prefixes)), LAMBDA k : k \notin seen)
       IN found \o MutScanPrefixes(it, Tail(prefixes),
                                   seen \cup {found[i] : i \in 1..Len(found)})
RECURSIVE ScanPrefixes(_, _)
\* lines 511-524: one scan per prefix with the same iterator
ScanPrefixes(it, prefixes) ==
  IF prefixes = <<>> THEN <<>>
  ELSE PrefixScan(it, Head(prefixes)) \o ScanPrefixes(it, Tail(prefixes))

MutdbRemoveByAnyPrefixMatched(jKeyPrefixes) ==
  MutScanPrefixes(NewIterator(store), StdSort(NonEmptyPrefixes(jKeyPrefixes)), {})
\* lines 504-524: the keys staged for Delete, in staging order
dbRemoveByAnyPrefixMatched(jKeyPrefixes) ==
  ScanPrefixes(NewIterator(store), StdSort(NonEmptyPrefixes(jKeyPrefixes)))

\* lines 480-537; the iterator of line 509 is not deleted on any path
dbRemoveByAnyPrefix(batchPtr, jKeyPrefixes, st) ==
  /\ Live
  /\ LET target == IF batchPtr # 0 THEN "batch" ELSE "db"
         matched == dbRemoveByAnyPrefixMatched(jKeyPrefixes)
         removed_count == Len(matched)
     IN IF Len(jKeyPrefixes) = 0 \/ NonEmptyPrefixes(jKeyPrefixes) = <<>>
          THEN /\ last' = Call("dbRemoveByAnyPrefix", target, jKeyPrefixes, -1,
                               "IllegalArgumentException")
               /\ UNCHANGED <<store, batch>>
          ELSE IF batchPtr # 0
            THEN /\ Len(batch) + removed_count <= MaxBatchLen
                 /\ batch' = batch \o Deletes(matched)
                 /\ store' = store
                 /\ last' = EngineCalls(Call("dbRemoveByAnyPrefix", target, jKeyPrefixes,
                                             removed_count, NoException), 0, 1, 0)
            ELSE IF removed_count = 0
              THEN /\ last' = EngineCalls(Call("dbRemoveByAnyPrefix", target, jKeyPrefixes,
                                               0, NoException), 0, 1, 0)
                   /\ UNCHANGED <<store, batch>>
              ELSE /\ store' = EngineWrite(store, Deletes(matched), st)
                   /\ batch' = batch
                   /\ last' = EngineCalls(
                                IF st # OkStatus
                                  THEN Call("dbRemoveByAnyPrefix", target, jKeyPrefixes,
                                            -1, "AssertionError")
                                  ELSE Call("dbRemoveByAnyPrefix", target, jKeyPrefixes,
                                            removed_count, NoException),
                                1, 1, 0)
  /\ UNCHANGED <<openVars, cursorVars>>

MutContains(s, key) ==
  LET itr == IterSeek(NewIterator(s), key)
  IN IF IterValid(itr) /\ StartsWith(IterKey(itr), key) THEN JNI_TRUE ELSE JNI_FALSE
\* lines 539-551: the value returned by dbContains
Contains(s, key) ==
  LET itr == IterSeek(NewIterator(s), key)
  IN IF IterValid(itr) /\ IterKey(itr) = key THEN JNI_TRUE ELSE JNI_FALSE

\* lines 182-192: the value returned by dbGetSizeByPrefix for a non-empty prefix
SizeByPrefix(s, prefix) == Len(PrefixScan(NewIterator(s), prefix))

\* lines 539-551
dbContains(key) ==
  /\ Live
  /\ last' = [EngineCalls(Call("dbContains", "db", <<>>, Contains(store, key), NoException),
                           0, 1, 1) EXCEPT !.key = key]
  /\ UNCHANGED <<store, batch, openVars, cursorVars>>

MutdbGetSizeByPrefix(prefix) ==
  /\ Live
  /\ last' = EngineCalls(Call("dbGetSizeByPrefix", "db", <<prefix>>,
                               SizeByPrefix(store, prefix), NoException), 0, 1, 0)
  /\ UNCHANGED <<store, batch, openVars, cursorVars>>
\* lines 176-193; the iterator of line 183 is not deleted
dbGetSizeByPrefix(prefix) ==
  /\ Live
  /\ last' = IF prefix = <<>>
               THEN Call("dbGetSizeByPrefix", "db", <<prefix>>, -1, "IllegalArgumentException")
               ELSE EngineCalls(Call("dbGetSizeByPrefix", "db", <<prefix>>,
                                     SizeByPrefix(store, prefix), NoException), 0, 1, 0)
  /\ UNCHANGED <<store, batch, openVars, cursorVars>>

RECURSIVE MutFindByValueLoop(_, _, _)
MutFindByValueLoop(it, prefix, value) ==
  IF ~IterValid(it) THEN <<>>
  ELSE IF ~StartsWith(IterKey(it), prefix) THEN <<>>
  ELSE IF Len(value) = Len(IterValue(it)) THEN IterKey(it)
  ELSE MutFindByValueLoop(IterNext(it), prefix, value)

RECURSIVE FindByValueLoop(_, _, _)
\* lines 267-277: the loop of dbFindByValue; "" when it ends without a match
FindByValueLoop(it, prefix, value) ==
  IF ~IterValid(it) THEN <<>>
  ELSE IF ~StartsWith(IterKey(it), prefix) THEN <<>>
  ELSE LET data == IterValue(it) IN
       IF Len(value) = Len(data) /\ (Len(data) = 0 \/ value = data)
         THEN IterKey(it)
         ELSE FindByValueLoop(IterNext(it), prefix, value)

\* lines 247-286; elementsOk: GetByteArrayElements gave the bytes of a non-empty jValue
dbFindByValue(prefix, jValue, elementsOk) ==
  /\ Live
  /\ Len(jValue) = 0 => elementsOk
  /\ last' =
       [(IF prefix = <<>>
           THEN Call("dbFindByValue", "db", <<prefix>>, 0, "IllegalArgumentException")
         ELSE IF ~elementsOk
           THEN Call("dbFindByValue", "db", <<prefix>>, 0, "IllegalArgumentException")
         ELSE LET found_key == FindByValueLoop(IterSeek(NewIterator(store), prefix),
                                               prefix, jValue)
                  call == EngineCalls(Call("dbFindByValue", "db", <<prefix>>, 0, NoException),
                                      0, 1, 1)
              IN IF found_key # <<>> THEN Returned(call, found_key) ELSE call)
        EXCEPT !.arg = jValue]
  /\ UNCHANGED <<store, batch, openVars, cursorVars>>

\* what reading n bytes through a Slice gives once the iterator it came from has
\* moved on or is deleted: the bytes are no longer the entry's, any n bytes may be read
StaleBytes(n) == [j \in 1..n |-> 0]

\* lines 229-243: the Java array built from the Slices collected by the scan; the
\* size of each is kept in the Slice, its bytes are read through value.data() after
\* `delete itr` (line 227); intact[i] tells whether those bytes still are the entry's
FindAllResult(s, keys, intact) ==
  [i \in 1..Len(keys) |-> IF intact[i] THEN s[keys[i]] ELSE StaleBytes(Len(s[keys[i]]))]

\* lines 229-238: how many of the collected Slices have their bytes read, all of
\* them after `delete itr`; SetByteArrayRegion runs for every length above 0
StaleReads(s, keys) == Cardinality({i \in 1..Len(keys) : Len(s[keys[i]]) > 0})

\* lines 206-245; sizeof(jbyte) is 1, so the size test of line 220 never fails
dbFindAll(prefix, intact) ==
  /\ Live
  /\ LET keys == PrefixScan(NewIterator(store), prefix) IN
     IF prefix = <<>>
       THEN /\ intact = <<>>
            /\ last' = Call("dbFindAll", "db", <<prefix>>, 0, "IllegalArgumentException")
       ELSE /\ Len(intact) = Len(keys)
            /\ last' =
                 LET call == EngineCalls(Call("dbFindAll", "db", <<prefix>>, 0, NoException),
                                         0, 1, 1)
                 IN IF keys = <<>> THEN call
                    ELSE [Returned(call, FindAllResult(store, keys, intact))
                          EXCEPT !.stale = StaleReads(store, keys)]
  /\ UNCHANGED <<store, batch, openVars, cursorVars>>


(***************************************************************************)
(* The prefix cursor: DatabaseIterator, dbFind, dbFindFinish                *)
(***************************************************************************)
\* the jlong of the caller's DatabaseIterator
CursorPtr == 3

\* how many times delete may run on one DatabaseIterator
MaxReleases == 2

\* allocated: the object is live; releases: how many times delete ran on it;
\* issued: dbFind has returned its handle to the caller
NoCursor ==
  [allocated |-> FALSE, prefix |-> <<>>, itr |-> NewIterator(<<>>), releases |-> 0,
   issued |-> FALSE]
NoScan == [store0 |-> <<>>, prefix |-> <<>>, yielded |-> <<>>, done |-> FALSE]

Mutis_valid(c) ==
  IterValid(c.itr) /\ Len(IterKey(c.itr)) >= Len(c.prefix)
\* lines 304-312: DatabaseIterator::is_valid
is_valid(c) ==
  IF IterValid(c.itr)
    THEN StartsWith(IterKey(c.itr), c.prefix)
    ELSE FALSE

\* lines 292-294: the constructor, itr(db->NewIterator(...)) then itr->Seek(prefix)
DatabaseIterator(s, prefix) ==
  [allocated |-> TRUE, prefix |-> prefix, itr |-> IterSeek(NewIterator(s), prefix),
   releases |-> 0, issued |-> FALSE]

\* lines 295-297: delete iterator runs ~DatabaseIterator, which deletes the engine iterator
Delete(c) == [c EXCEPT !.allocated = FALSE, !.releases = @ + 1]

\* lines 299-302: DatabaseIterator::next, the iterator after itr->Next()
next(c) == [c EXCEPT !.itr = IterNext(c.itr)]

\* lines 318-343; jKeyPrefix is null (from_jstring gives "") or a string
dbFind(prefixIsNull, jKeyPrefix, iteratorPtr) ==
  /\ Live
  /\ prefixIsNull => jKeyPrefix = <<>>
  /\ IF iteratorPtr # 0
       THEN /\ cursor.allocated
            /\ IF ~prefixIsNull
                 THEN /\ last' = Call("dbFind", "cursor", <<jKeyPrefix>>, 0,
                                      "IllegalArgumentException")
                      /\ UNCHANGED <<cursor, scan>>
                 ELSE LET c == next(cursor) IN
                      IF is_valid(c)
                        THEN /\ cursor' = [c EXCEPT !.issued = TRUE]
                             /\ scan' = [scan EXCEPT !.yielded = Append(@, IterKey(c.itr))]
                             /\ last' = Call("dbFind", "cursor", <<>>, CursorPtr,
                                             NoException)
                        ELSE /\ cursor' = Delete(c)
                             /\ scan' = [scan EXCEPT !.done = TRUE]
                             /\ last' = EngineCalls(Call("dbFind", "cursor", <<>>, 0,
                                                         NoException), 0, 0, 1)
       ELSE /\ ~cursor.allocated
            /\ IF jKeyPrefix = <<>>
                 THEN /\ last' = Call("dbFind", "cursor", <<jKeyPrefix>>, 0,
                                      "IllegalArgumentException")
                      /\ UNCHANGED <<cursor, scan>>
                 ELSE LET c == DatabaseIterator(store, jKeyPrefix) IN
                      IF is_valid(c)
                        THEN /\ cursor' = [c EXCEPT !.issued = TRUE]
                             /\ scan' = [store0 |-> store, prefix |-> jKeyPrefix,
                                         yielded |-> <<IterKey(c.itr)>>, done |-> FALSE]
                             /\ last' = EngineCalls(Call("dbFind", "cursor", <<jKeyPrefix>>,
                                                         CursorPtr, NoException), 0, 1, 0)
                        ELSE /\ cursor' = Delete(c)
                             /\ scan' = [store0 |-> store, prefix |-> jKeyPrefix,
                                         yielded |-> <<>>, done |-> TRUE]
                             /\ last' = EngineCalls(Call("dbFind", "cursor", <<jKeyPrefix>>,
                                                         0, NoException), 0, 1, 1)
  /\ UNCHANGED <<store, batch, openVars>>

\* the process has been aborted (by the allocator, on a detected double free)
Aborted == pc = "aborted"

\* lines 345-348: delete iterator, whatever the handle: 0 (delete of a null pointer
\* does nothing), the caller's live cursor, or a handle the caller kept of a cursor
\* that was deleted already (by dbFind at exhaustion, line 340, or by an earlier
\* dbFindFinish). Deleting a deleted object is undefined: the destructor runs again
\* and deletes the engine iterator again, or the allocator aborts the process.
dbFindFinish(iteratorPtr, outcome) ==
  /\ Live
  /\ IF iteratorPtr = 0
       THEN /\ outcome = "delete"
            /\ last' = Call("dbFindFinish", "cursor", <<>>, 0, NoException)
            /\ UNCHANGED <<cursor, pc>>
       ELSE IF cursor.allocated
         THEN /\ outcome = "delete"
              /\ cursor' = Delete(cursor)
              /\ last' = EngineCalls(Call("dbFindFinish", "cursor", <<>>, 0, NoException),
                                      0, 0, 1)
              /\ pc' = pc
         ELSE /\ cursor.issued
              /\ cursor.releases >= 1
              /\ cursor.releases < MaxReleases
              /\ IF outcome = "delete"
                   THEN /\ cursor' = Delete(cursor)
                        /\ last' = EngineCalls(Call("dbFindFinish", "cursor", <<>>, 0,
                                                    NoException), 0, 0, 1)
                        /\ pc' = pc
                   ELSE /\ pc' = "aborted"
                        /\ last' = Call("dbFindFinish", "cursor", <<>>, 0, "SIGABRT")
                        /\ cursor' = cursor
  /\ UNCHANGED <<store, batch, scan, status, attempt_count, error, handle, hasHook,
                 hookLog, thrown, fatalCalls, openCalls, repairCalls, repairStatus,
                 structAt, waited, sleeps, abortWait>>

(***************************************************************************)
(* Typed values: how the puts lay a Java value out in bytes and how the     *)
(* getters read it back                                                     *)
(***************************************************************************)
\* sizeof of the JNI types (jni.h); jsize is jint
SizeOf(type) ==
  CASE type \in {"jboolean", "jbyte"} -> 1
    [] type = "jchar" -> 2
    [] type \in {"jint", "jfloat", "jsize"} -> 4
    [] type \in {"jlong", "jdouble"} -> 8

ScalarTypes == {"jboolean", "jbyte", "jint", "jlong", "jfloat", "jdouble"}

Pow256(n) == CASE n = 0 -> 1 [] n = 1 -> 256 [] n = 2 -> 65536 [] n = 3 -> 16777216

\* the n bytes (n <= 4) of a word in memory, little-endian two's complement
BytesOf(w, n) == [i \in 1..n |-> (w \div Pow256(i - 1)) % 256]

RECURSIVE Unsigned(_)
\* the word held by up to 4 bytes, read unsigned
Unsigned(bytes) ==
  IF bytes = <<>> THEN 0 ELSE Head(bytes) + 256 * Unsigned(Tail(bytes))

\* the word held by up to 4 bytes, read signed
Signed(bytes) ==
  LET n == Len(bytes)
      top == IF bytes[n] >= 128 THEN bytes[n] - 256 ELSE bytes[n]
  IN Unsigned(SubSeq(bytes, 1, n - 1)) + top * Pow256(n - 1)

\* a primitive value is held as its words: one word for a type of up to 4 bytes,
\* the low and the high word for a type of 8 bytes
WordSize(type) == MinOf(SizeOf(type), 4)
WordsIn(type) == SizeOf(type) \div WordSize(type)

RECURSIVE Flatten(_)
Flatten(seqs) == IF seqs = <<>> THEN <<>> ELSE Head(seqs) \o Flatten(Tail(seqs))

\* leveldb::Slice((const char *) &jValue, sizeof(TYPE)): the value as it lies in memory
ScalarBytes(type, v) == Flatten([i \in 1..WordsIn(type) |-> BytesOf(v[i], WordSize(type))])

\* jni::as<T>(value.data()): the value read from sizeof(T) bytes
AsScalar(type, bytes) ==
  [i \in 1..WordsIn(type) |->
     LET w == SubSeq(bytes, (i - 1) * WordSize(type) + 1, i * WordSize(type))
     IN IF type = "jboolean" THEN Unsigned(w) ELSE Signed(w)]

\* the elements of a primitive array as they lie in memory
ArrayBytes(type, elems) == Flatten([i \in 1..Len(elems) |-> ScalarBytes(type, elems[i])])

\* array_set / Set<Type>ArrayRegion: length elements read from the bytes
AsArray(type, bytes, length) ==
  [i \in 1..length |->
     AsScalar(type, SubSeq(bytes, (i - 1) * SizeOf(type) + 1, i * SizeOf(type)))]

\* GetStringChars / GetStringRegion: the UTF-16 code units of a string in memory
StringBytes(chars) == Flatten([i \in 1..Len(chars) |-> BytesOf(chars[i], SizeOf("jchar"))])

\* NewString((jchar *) data, length)
NewString(bytes, length) ==
  [i \in 1..length |->
     Unsigned(SubSeq(bytes, (i - 1) * SizeOf("jchar") + 1, i * SizeOf("jchar")))]

\* lines 875-906: the buffer dbPutStringArray fills: the element count, then for
\* each string its length and its code units
StringArrayBytes(strings) ==
  BytesOf(Len(strings), SizeOf("jsize"))
    \o Flatten([i \in 1..Len(strings) |->
                  BytesOf(Len(strings[i]), SizeOf("jsize")) \o StringBytes(strings[i])])

\* an element of a Java object array that was never set (null); no string is
\* this, a code unit is not negative
NullRef == <<-1>>

\* what a parse gives: the exceptions it raised, the key its message names, and
\* the object it returns (null when ok is FALSE)
Parsed(result) == [ok |-> TRUE, raised |-> <<>>, named |-> <<>>, result |-> result]
ValueError(key) ==
  [ok |-> FALSE, raised |-> <<"IllegalStateException">>, named |-> key, result |-> <<>>]
JavaError(exception) ==
  [ok |-> FALSE, raised |-> <<exception>>, named |-> <<>>, result |-> <<>>]

\* the longest object array the Java heap has room for
MaxArrayLength == 3

RECURSIVE ParseStringArrayLoop(_, _, _, _, _, _)
\* lines 699-728: for (jsize i = 0; i < size && remaining > 0; i++); i counts from 0
ParseStringArrayLoop(key, value, size, i, position, result) ==
  LET remaining == Len(value) - position IN
  IF ~(i < size /\ remaining > 0) THEN Parsed(result)
  ELSE IF remaining < SizeOf("jsize") THEN ValueError(key)
  ELSE LET length == Signed(SubSeq(value, position + 1, position + SizeOf("jsize")))
           position2 == position + SizeOf("jsize")
           remaining2 == remaining - SizeOf("jsize")
       IN IF length < 0 THEN ValueError(key)
          ELSE IF remaining2 < length * SizeOf("jchar") THEN ValueError(key)
          ELSE LET string == NewString(SubSeq(value, position2 + 1, Len(value)), length)
               IN ParseStringArrayLoop(key, value, size, i + 1,
                                       position2 + length * SizeOf("jchar"),
                                       [result EXCEPT ![i + 1] = string])

MutParseStringArray(key, value) ==
  IF Len(value) < SizeOf("jsize") THEN ValueError(key)
  ELSE LET size == Signed(SubSeq(value, 1, SizeOf("jsize")))
       IN IF size < 0 THEN JavaError("NegativeArraySizeException")
          ELSE IF size > MaxArrayLength THEN JavaError("OutOfMemoryError")
          ELSE ParseStringArrayLoop(key, value, size - 1, 0, SizeOf("jsize"),
                                    [i \in 1..size |-> NullRef])
\* lines 678-730: dbParseArray<jstring,jobjectArray>; NewObjectArray(size, ...,
\* nullptr) gives size null elements, and raises for a negative size and for
\* one the heap has no room for
ParseStringArray(key, value) ==
  IF Len(value) < SizeOf("jsize") THEN ValueError(key)
  ELSE LET size == Signed(SubSeq(value, 1, SizeOf("jsize")))
       IN IF size < 0 THEN JavaError("NegativeArraySizeException")
          ELSE IF size > MaxArrayLength THEN JavaError("OutOfMemoryError")
          ELSE ParseStringArrayLoop(key, value, size, 0, SizeOf("jsize"),
                                    [i \in 1..size |-> NullRef])

\* lines 660-675: dbParseArray<T,ARRAY_T>
ParseArray(type, key, value) ==
  IF Len(value) % SizeOf(type) # 0 THEN ValueError(key)
  ELSE Parsed(AsArray(type, value, Len(value) \div SizeOf(type)))

\* lines 568-584: dbParse<jstring>
ParseString(key, value) ==
  IF Len(value) % SizeOf("jchar") # 0 THEN ValueError(key)
  ELSE Parsed(NewString(value, Len(value) \div SizeOf("jchar")))

MutParseScalar(type, key, value) ==
  IF Len(value) < SizeOf(type) THEN ValueError(key)
  ELSE Parsed(AsScalar(type, value))
\* lines 555-566: dbParse<T>
ParseScalar(type, key, value) ==
  IF Len(value) # SizeOf(type) THEN ValueError(key)
  ELSE Parsed(AsScalar(type, value))

\* a typed call: the Java type it was made for, its key and its value argument
Typed(call, type, key, arg) == [call EXCEPT !.type = type, !.key = key, !.arg = arg]

\* lines 764-775, 850-860 and 908-918: the write of every put, into the batch
\* when isBatch, else straight to the database
PutBytes(op, type, isBatch, key, arg, value, st) ==
  /\ Live
  /\ IF isBatch
       THEN /\ Len(batch) < MaxBatchLen
            /\ st = OkStatus
            /\ batch' = Append(batch, PutOp(key, value))
            /\ store' = store
            /\ last' = Typed(Call(op, "batch", <<>>, JNI_TRUE, NoException), type, key, arg)
       ELSE /\ store' = EngineWrite(store, <<PutOp(key, value)>>, st)
            /\ batch' = batch
            /\ last' = Typed(EngineCalls(
                               IF st # OkStatus
                                 THEN Call(op, "db", <<>>, JNI_FALSE, "AssertionError")
                                 ELSE Call(op, "db", <<>>, JNI_TRUE, NoException),
                               1, 0, 0), type, key, arg)
  /\ UNCHANGED <<openVars, cursorVars>>

\* a put that fails before any write: the JVM gave no access to the argument
PutRefused(op, type, isBatch, key, arg, exception) ==
  /\ Live
  /\ last' = Typed(Call(op, IF isBatch THEN "batch" ELSE "db", <<>>, JNI_FALSE, exception),
                   type, key, arg)
  /\ UNCHANGED <<store, batch, openVars, cursorVars>>

\* lines 778-783 and 788-793: DB_FUNC_PUT, dbPutInt ... dbPutDouble
dbPutScalar(type, isBatch, key, jValue, st) ==
  PutBytes("dbPut", type, isBatch, key, jValue, ScalarBytes(type, jValue), st)

\* lines 784-787
dbPutVoid(isBatch, key, st) ==
  PutBytes("dbPutVoid", "void", isBatch, key, <<>>, <<>>, st)

\* lines 794-813; bufferOk: GetStringChars gave the characters of a non-empty string
dbPutString(isBatch, key, jValue, bufferOk, st) ==
  IF ~bufferOk /\ Len(jValue) > 0
    THEN st = OkStatus /\ PutRefused("dbPutString", "jstring", isBatch, key, jValue, NoException)
    ELSE bufferOk /\ PutBytes("dbPutString", "jstring", isBatch, key, jValue,
                              StringBytes(jValue), st)

\* lines 835-871: DB_FUNC_PUT_ARRAY; elementsOk: Get<Type>ArrayElements gave the
\* elements of a non-empty array
dbPutArray(type, isBatch, key, jValue, elementsOk, st) ==
  IF ~elementsOk /\ Len(jValue) > 0
    THEN st = OkStatus /\ PutRefused("dbPutArray", type, isBatch, key, jValue,
                                     "IllegalArgumentException")
    ELSE elementsOk /\ PutBytes("dbPutArray", type, isBatch, key, jValue,
                                ArrayBytes(type, jValue), st)

\* lines 873-921; bufferOk: malloc gave the buffer
dbPutStringArray(isBatch, key, jValue, bufferOk, st) ==
  IF ~bufferOk
    THEN st = OkStatus /\ PutRefused("dbPutStringArray", "jstring[]", isBatch, key, jValue,
                                     "IllegalArgumentException")
    ELSE PutBytes("dbPutStringArray", "jstring[]", isBatch, key, jValue,
                  StringArrayBytes(jValue), st)

\* line 82
KEY_NOT_FOUND_EXCEPTION == "FileNotFoundException"

GetStatuses == {OkStatus, NotFoundStatus, WriteFailure}
\* DB::Get: ok for a stored key, NotFound for a missing one, or a failed read
EngineGet(key, st) ==
  /\ st = OkStatus => key \in DOMAIN store
  /\ st = NotFoundStatus => key \notin DOMAIN store

\* lines 633-641, 608-616: the lookup did not give a value
Missed(key, st, throwIfError) ==
  [ok |-> FALSE,
   raised |-> (IF st # NotFoundStatus THEN <<"AssertionError">> ELSE <<>>)
                \o (IF throwIfError THEN <<KEY_NOT_FOUND_EXCEPTION>> ELSE <<>>),
   named |-> IF st # NotFoundStatus THEN key ELSE <<>>,
   result |-> <<>>]

\* a typed read returns: ret is 1 and result the decoded value when the stored
\* bytes were decoded, else ret is 0 and result the default (empty for null);
\* raised lists the exceptions thrown in order, named the key their text carries;
\* of two thrown in one call, either may be the one left pending
Answer(op, target, type, key, arg, p, st, pending, created) ==
  /\ pending = 1 \/ pending <= Len(p.raised)
  /\ last' = [EngineCalls(
                 Call(op, target, <<>>, IF p.ok THEN 1 ELSE 0,
                      IF p.raised = <<>> THEN NoException ELSE p.raised[pending]),
                 0, created, 0)
              EXCEPT !.type = type, !.key = key, !.arg = arg,
                     !.result = IF p.ok THEN p.result ELSE arg,
                     !.raised = p.raised, !.named = p.named, !.engine = st.code]
  /\ UNCHANGED <<store, batch, openVars, cursorVars>>

\* lines 627-656: dbGet<T>, dbGetInt ... dbGetString
dbGet(type, key, defaultValue, throwIfError, st, pending) ==
  /\ Live
  /\ EngineGet(key, st)
  /\ Answer("dbGet", "db", type, key, defaultValue,
            IF st # OkStatus THEN Missed(key, st, throwIfError)
            ELSE IF type = "jstring" THEN ParseString(key, store[key])
            ELSE ParseScalar(type, key, store[key]),
            st, pending, 0)

\* (jlong) of a jint: the sign fills the upper word
Widen(v) == <<v[1], IF v[1] < 0 THEN -1 ELSE 0>>

\* lines 603-625
dbGetIntOrLong(key, defaultValue, throwIfError, st, pending) ==
  /\ Live
  /\ EngineGet(key, st)
  /\ Answer("dbGetIntOrLong", "db", "jlong", key, Widen(defaultValue),
            IF st # OkStatus THEN Missed(key, st, throwIfError)
            ELSE IF Len(store[key]) = SizeOf("jint")
              THEN LET p == ParseScalar("jint", key, store[key])
                   IN [p EXCEPT !.result = Widen(@)]
            ELSE IF Len(store[key]) = SizeOf("jlong")
              THEN ParseScalar("jlong", key, store[key])
            ELSE ValueError(key),
            st, pending, 0)

\* lines 586-601; the size is returned as a jlong
dbGetValueSize(key, throwIfError, st, pending) ==
  /\ Live
  /\ EngineGet(key, st)
  /\ Answer("dbGetValueSize", "db", "size", key, <<-1, -1>>,
            IF st # OkStatus THEN Missed(key, st, throwIfError)
            ELSE Parsed(<<Len(store[key]), 0>>),
            st, pending, 0)

\* lines 732-759: dbGetArray<T,ARRAY_T>, dbGetIntArray ... dbGetStringArray
dbGetArray(type, key, st) ==
  /\ Live
  /\ EngineGet(key, st)
  /\ Answer("dbGetArray", "db", type, key, <<>>,
            IF st # OkStatus THEN Missed(key, st, FALSE)
            ELSE IF type = "jstring[]" THEN ParseStringArray(key, store[key])
            ELSE ParseArray(type, key, store[key]),
            st, 1, 0)

ArrayTypes == {"jint", "jlong", "jbyte", "jfloat", "jdouble"}

\* the cursor handle the caller holds refers to the live cursor
OnCursor(iteratorPtr) == Live /\ iteratorPtr = CursorPtr /\ cursor.allocated

\* lines 357-373: DB_FUNC_CAST, dbAsBoolean ... dbAsDouble; the default is 0
dbAs(type, iteratorPtr) ==
  /\ OnCursor(iteratorPtr)
  /\ LET value == IterValue(cursor.itr)
         key == IterKey(cursor.itr)
     IN Answer("dbAs", "cursor", type, key, [i \in 1..WordsIn(type) |-> 0],
               IF Len(value) # SizeOf(type) THEN ValueError(key)
               ELSE Parsed(AsScalar(type, value)),
               OkStatus, 1, 0)

\* lines 375-395: DB_FUNC_CAST_ARRAY, dbAsByteArray, dbAsLongArray
dbAsArray(type, iteratorPtr) ==
  /\ OnCursor(iteratorPtr)
  /\ LET value == IterValue(cursor.itr)
         key == IterKey(cursor.itr)
     IN Answer("dbAsArray", "cursor", type, key, <<>>,
               IF Len(value) % SizeOf(type) # 0 THEN ValueError(key)
               ELSE Parsed(AsArray(type, value, Len(value) \div SizeOf(type))),
               OkStatus, 1, 0)

\* lines 397-410
dbAsString(iteratorPtr) ==
  /\ OnCursor(iteratorPtr)
  /\ LET value == IterValue(cursor.itr)
         key == IterKey(cursor.itr)
     IN Answer("dbAsString", "cursor", "jstring", key, <<>>,
               IF Len(value) % SizeOf("jchar") # 0 THEN ValueError(key)
               ELSE Parsed(NewString(value, Len(value) \div SizeOf("jchar"))),
               OkStatus, 1, 0)


(***************************************************************************)
(* Specifications                                                           *)
(***************************************************************************)
NoCall == Call("none", "none", <<>>, 0, NoException)

\* dbOpen has been entered: the locals of lines 111-117
InitOpen ==
  /\ pc = "open"
  /\ status = NoStatus
  /\ attempt_count = 0
  /\ error = NoText
  /\ handle = NotReturned
  /\ hasHook \in BOOLEAN
  /\ hookLog = <<>>
  /\ thrown = <<>>
  /\ fatalCalls = 0
  /\ openCalls = 0
  /\ repairCalls = 0
  /\ repairStatus = NoStatus
  /\ structAt = -1
  /\ waited = 0
  /\ sleeps = <<>>
  /\ abortWait = -1
  /\ store = <<>>
  /\ batch = <<>>
  /\ last = NoCall
  /\ cursor = NoCursor
  /\ scan = NoScan

NextOpen ==
  \/ \E s \in Statuses : dbOpenAttempt(s)
  \/ \E s \in Statuses : dbOpenRepair(s)
  \/ \E s \in Statuses : dbOpenReopen(s)

SpecOpen == InitOpen /\ [][NextOpen]_vars

\* dbOpen returned a handle at its first attempt; the caller has created one
\* batch (dbBatchCreate) and holds no cursor
Opened ==
  /\ pc = "done"
  /\ status = OkStatus
  /\ attempt_count = 0
  /\ error = NoText
  /\ Live
  /\ hasHook = TRUE
  /\ hookLog = <<>>
  /\ thrown = <<>>
  /\ fatalCalls = 0
  /\ openCalls = 1
  /\ repairCalls = 0
  /\ repairStatus = NoStatus
  /\ structAt = -1
  /\ waited = 0
  /\ sleeps = <<>>
  /\ abortWait = -1
  /\ batch = <<>>
  /\ last = NoCall
  /\ cursor = NoCursor
  /\ scan = NoScan

\* the database holds any contents
Init == Opened /\ store \in Stores

PrefixArrays == UNION {[1..n -> Prefixes] : n \in 0..MaxPrefixes}

Next ==
  \/ \E k \in KeySpace, v \in Values : dbPut(TRUE, k, v, OkStatus)
  \/ \E k \in KeySpace, v \in Values, st \in WriteStatuses : dbPut(FALSE, k, v, st)
  \/ \E k \in KeySpace, st \in WriteStatuses \cup {NotFoundStatus} : dbRemove(k, st)
  \/ \E k \in KeySpace : dbBatchRemove(k)
  \/ dbBatchClear
  \/ \E st \in WriteStatuses : dbBatchPerform(st)
  \/ \E st \in WriteStatuses : dbClear(st)
  \/ \E p \in Prefixes : dbRemoveByPrefix(BatchPtr, p, OkStatus)
  \/ \E p \in Prefixes, st \in WriteStatuses : dbRemoveByPrefix(0, p, st)
  \/ \E ps \in PrefixArrays : dbRemoveByAnyPrefix(BatchPtr, ps, OkStatus)
  \/ \E ps \in PrefixArrays, st \in WriteStatuses : dbRemoveByAnyPrefix(0, ps, st)

Spec == Init /\ [][Next]_vars

NextBatch ==
  \/ \E k \in KeySpace, v \in Values : dbPut(TRUE, k, v, OkStatus)
  \/ \E k \in KeySpace, v \in Values, st \in WriteStatuses : dbPut(FALSE, k, v, st)
  \/ \E k \in KeySpace, st \in WriteStatuses \cup {NotFoundStatus} : dbRemove(k, st)
  \/ \E k \in KeySpace : dbBatchRemove(k)
  \/ dbBatchClear
  \/ \E st \in WriteStatuses : dbBatchPerform(st)
  \/ \E st \in WriteStatuses : dbClear(st)

SpecBatch == Init /\ [][NextBatch]_vars

NextRemove ==
  \/ \E p \in Prefixes : dbRemoveByPrefix(BatchPtr, p, OkStatus)
  \/ \E p \in Prefixes, st \in WriteStatuses : dbRemoveByPrefix(0, p, st)
  \/ \E ps \in PrefixArrays : dbRemoveByAnyPrefix(BatchPtr, ps, OkStatus)
  \/ \E ps \in PrefixArrays, st \in WriteStatuses : dbRemoveByAnyPrefix(0, ps, st)
  \/ \E st \in WriteStatuses : dbBatchPerform(st)

SpecRemove == Init /\ [][NextRemove]_vars

\* puts and removals by prefix staged in the caller's batch, and its commit
NextStaged ==
  \/ \E k \in KeySpace, v \in Values : dbPut(TRUE, k, v, OkStatus)
  \/ \E p \in Prefixes : dbRemoveByPrefix(BatchPtr, p, OkStatus)
  \/ \E ps \in PrefixArrays : dbRemoveByAnyPrefix(BatchPtr, ps, OkStatus)
  \/ \E st \in WriteStatuses : dbBatchPerform(st)

SpecStaged == Init /\ [][NextStaged]_vars

NextCursor ==
  \/ \E n \in BOOLEAN, p \in Prefixes, ip \in {0, CursorPtr} : dbFind(n, p, ip)
  \/ \E ip \in {0, CursorPtr}, o \in {"delete", "abort"} : dbFindFinish(ip, o)
  \/ \E k \in KeySpace, v \in Values, st \in WriteStatuses : dbPut(FALSE, k, v, st)
  \/ \E k \in KeySpace, st \in WriteStatuses : dbRemove(k, st)
  \/ \E k \in KeySpace \cup Prefixes : dbContains(k)
  \/ \E p \in Prefixes : dbGetSizeByPrefix(p)

SpecCursor == Init /\ [][NextCursor]_vars

\* for each scanned entry, whether its bytes are still intact when read
IntactChoices == UNION {[1..n -> BOOLEAN] : n \in 0..Cardinality(KeySpace)}

\* the values dbFindByValue is asked to find: the stored ones and one that differs
\* from a stored value in its byte only
Targets == Values \cup {<<0>>}

NextScan ==
  \/ \E p \in Prefixes, i \in IntactChoices : dbFindAll(p, i)
  \/ \E p \in Prefixes, v \in Targets, ok \in BOOLEAN : dbFindByValue(p, v, ok)
  \/ \E p \in Prefixes : dbGetSizeByPrefix(p)
  \/ \E p \in Prefixes : dbRemoveByPrefix(BatchPtr, p, OkStatus)
  \/ \E p \in Prefixes, st \in WriteStatuses : dbRemoveByPrefix(0, p, st)
  \/ \E n \in BOOLEAN, p \in Prefixes, ip \in {0, CursorPtr} : dbFind(n, p, ip)
  \/ \E ip \in {0, CursorPtr}, o \in {"delete", "abort"} : dbFindFinish(ip, o)

SpecScan == Init /\ [][NextScan]_vars

\* the key the typed values go under, and a second key that takes scalars only
CodecKey == <<2>>
CodecKeys == {<<2>>, <<2, 3, 1>>}

\* values of each Java type: a scalar is its 32-bit words, low word first (a
\* float or double is its bit pattern), a string is its UTF-16 code units
ScalarInputs(type) ==
  CASE type = "jboolean" -> {<<1>>}
    [] type = "jbyte" -> {<<-2>>}
    [] type = "jint" -> {<<0>>, <<-2>>}
    [] type = "jlong" -> {<<1, -1>>}
    [] type = "jfloat" -> {<<1065353216>>}
    [] type = "jdouble" -> {<<0, 1072693248>>}
StringInputs == {<<>>, <<97>>, <<97, 9786>>}
\* the byte arrays are also the buffers a TextArray read may meet: a count of 1
\* and nothing else, a count of 2 and one empty string, a string length of 1
\* and no code unit, 2 bytes where a string length is due, and 3 bytes
ArrayInputs(type) ==
  CASE type = "jbyte" -> {<<>>, <<<<1>>, <<0>>, <<0>>, <<0>>>>,
                          <<<<2>>, <<0>>, <<0>>, <<0>>, <<0>>, <<0>>, <<0>>, <<0>>>>,
                          <<<<1>>, <<0>>, <<0>>, <<0>>, <<1>>, <<0>>, <<0>>, <<0>>>>,
                          <<<<1>>, <<0>>, <<0>>, <<0>>, <<5>>, <<0>>>>,
                          <<<<1>>, <<0>>, <<0>>>>}
    [] type = "jint" -> {<<>>, <<<<-1>>>>}
    [] type = "jlong" -> {<<<<1, -1>>>>}
    [] type = "jfloat" -> {<<<<1065353216>>>>}
    [] type = "jdouble" -> {<<>>}
StringArrayInputs == {<<>>, <<<<>>>>, <<<<97>>>>, <<<<>>, <<>>>>, <<<<97>>, <<>>>>}

\* the default a caller passes to a getter
DefaultOf(type) == IF type = "jstring" THEN <<100>> ELSE [i \in 1..WordsIn(type) |-> 7]

\* the database is open and empty
InitCodec == Opened /\ store = <<>>

NextCodec ==
  \/ \E ty \in ScalarTypes, k \in CodecKeys, st \in WriteStatuses :
       \E v \in ScalarInputs(ty) : dbPutScalar(ty, FALSE, k, v, st)
  \/ \E st \in WriteStatuses : dbPutVoid(FALSE, CodecKey, st)
  \/ \E v \in StringInputs, ok \in BOOLEAN, st \in WriteStatuses :
       dbPutString(FALSE, CodecKey, v, ok, st)
  \/ \E ty \in ArrayTypes, ok \in BOOLEAN, st \in WriteStatuses :
       \E v \in ArrayInputs(ty) : dbPutArray(ty, FALSE, CodecKey, v, ok, st)
  \/ \E v \in StringArrayInputs, ok \in BOOLEAN, st \in WriteStatuses :
       dbPutStringArray(FALSE, CodecKey, v, ok, st)
  \/ \E k \in CodecKeys, st \in WriteStatuses \cup {NotFoundStatus} : dbRemove(k, st)
  \/ \E ty \in ScalarTypes \cup {"jstring"}, k \in CodecKeys, e \in BOOLEAN,
        st \in GetStatuses, n \in 1..2 : dbGet(ty, k, DefaultOf(ty), e, st, n)
  \/ \E k \in CodecKeys, e \in BOOLEAN, st \in GetStatuses, n \in 1..2 :
       dbGetIntOrLong(k, DefaultOf("jint"), e, st, n)
  \/ \E k \in CodecKeys, e \in BOOLEAN, st \in GetStatuses, n \in 1..2 :
       dbGetValueSize(k, e, st, n)
  \/ \E ty \in ArrayTypes \cup {"jstring[]"}, k \in CodecKeys, st \in GetStatuses :
       dbGetArray(ty, k, st)

SpecCodec == InitCodec /\ [][NextCodec]_vars

\* byte strings of every length a size check tells apart
AccessValues == {<<>>, <<1>>, <<1, 0>>, <<1, 0, 0>>, <<254, 255, 255, 255>>,
                 <<1, 0, 0, 0, 0>>, <<1, 0, 0, 0, 255, 255, 255, 255>>,
                 <<1, 0, 0, 0, 0, 0, 0, 0, 0>>}
AccessStores ==
  {CodecKey :> v : v \in AccessValues}
    \cup {(CodecKey :> v) @@ (<<2, 3, 1>> :> w) : v \in AccessValues, w \in {<<1>>, <<1, 0, 0>>}}

\* the database holds byte strings of any length, as dbPutByteArray stores them
InitAccess == Opened /\ store \in AccessStores

CastTypes == {"jboolean", "jint", "jlong", "jfloat", "jdouble"}

NextAccess ==
  \/ \E ty \in ScalarTypes \cup {"jstring"}, k \in CodecKeys, e \in BOOLEAN,
        st \in GetStatuses, n \in 1..2 : dbGet(ty, k, DefaultOf(ty), e, st, n)
  \/ \E k \in CodecKeys, e \in BOOLEAN, st \in GetStatuses, n \in 1..2 :
       dbGetIntOrLong(k, DefaultOf("jint"), e, st, n)
  \/ \E ty \in ArrayTypes, k \in CodecKeys, st \in GetStatuses : dbGetArray(ty, k, st)
  \/ \E p \in {<<2>>}, ip \in {0, CursorPtr} : dbFind(FALSE, p, ip)
  \/ \E ip \in {0, CursorPtr} : dbFindFinish(ip, "delete")
  \/ \E ty \in CastTypes : dbAs(ty, CursorPtr)
  \/ \E ty \in {"jbyte", "jlong"} : dbAsArray(ty, CursorPtr)
  \/ dbAsString(CursorPtr)

SpecAccess == InitAccess /\ [][NextAccess]_vars


(***************************************************************************)
(* The open/recovery protocol                                               *)
(***************************************************************************)
\* C1: after a structural open error dbOpen calls RepairDB exactly once and then
\* DB::Open exactly once more (not at all when the repair failed); when the repair
\* or that open fails, also with a "Try again" error, the run ends with handle 0
\* and a fatal report, and nothing more is attempted.
C1_RepairOnceReopenOnce ==
  /\ structAt = -1 => repairCalls = 0
  /\ structAt # -1 =>
       /\ repairCalls <= 1
       /\ openCalls <= structAt + 1
       /\ pc = "reopen" => repairCalls = 1 /\ repairStatus = OkStatus /\ openCalls = structAt
       /\ pc = "done" =>
            /\ repairCalls = 1
            /\ openCalls = structAt + (IF repairStatus = OkStatus THEN 1 ELSE 0)
            /\ (repairStatus # OkStatus \/ status # OkStatus) => handle = 0 /\ fatalCalls = 1
            /\ ~ENABLED NextOpen

C1_Witness ==
  /\ pc = "done"
  /\ structAt # -1
  /\ repairStatus = OkStatus
  /\ IsTransientOpenError(status)
  /\ repairCalls = 1
  /\ openCalls = structAt + 1
  /\ handle = 0

\* C2: a run of dbOpen that fails reports through onFatalError exactly once (to the
\* Java method when the database object has it, as an AssertionError otherwise) and
\* returns 0; a run that opens the database returns a non-zero handle and reports
\* nothing.
C2_FatalReportedOnce ==
  /\ pc # "done" => fatalCalls = 0 /\ handle = NotReturned
  /\ pc = "done" =>
       /\ handle \in {0, DbPtr}
       /\ handle = 0 =>
            /\ fatalCalls = 1
            /\ Len(hookLog) + Len(thrown) = 1
            /\ hasHook => Len(hookLog) = 1
       /\ handle # 0 =>
            /\ status = OkStatus
            /\ fatalCalls = 0
            /\ hookLog = <<>>
            /\ thrown = <<>>

C2_Witness ==
  /\ pc = "done"
  /\ handle = 0
  /\ repairStatus \notin {OkStatus, NoStatus}
  /\ hasHook
  /\ Len(hookLog) = 1

\* C3: while every open attempt fails with the transient "Try again" error the loop
\* is bounded: the time slept never exceeds 5000 ms, at most 5000/100 + 1 attempts
\* are made, and at the cap dbOpen aborts with a fatal report and never repairs.
C3_RetryBounded ==
  /\ waited <= MaxTotalWait
  /\ attempt_count <= (MaxTotalWait \div WaitPerAttempt) + 1
  /\ structAt = -1 /\ pc = "open" => openCalls = attempt_count
  /\ abortWait # -1 =>
       /\ pc = "done"
       /\ abortWait >= MaxTotalWait
       /\ openCalls = attempt_count
       /\ handle = 0
       /\ fatalCalls = 1
       /\ repairCalls = 0

C3_Witness ==
  /\ pc = "done"
  /\ abortWait = MaxTotalWait
  /\ waited = MaxTotalWait
  /\ repairCalls = 0
  /\ handle = 0

\* C4, as claimed: the wait before the n-th retry is 100 ms * n (100, 200, 300, ...).
C4_LinearBackoff ==
  \A i \in 1..Len(sleeps) : sleeps[i] = WaitPerAttempt * i

\* C4, amended: every retry waits the same 100 ms; the attempt number grows by one
\* per retry (and once more in the iteration that aborts), 100 ms * attempt number
\* is the time waited so far, and the abort decision is taken on that sum.
C4_ConstantBackoff ==
  /\ \A i \in 1..Len(sleeps) : sleeps[i] = SleepMicros \div 1000
  /\ waited = (SleepMicros \div 1000) * Len(sleeps)
  /\ attempt_count = Len(sleeps) + (IF abortWait # -1 THEN 1 ELSE 0)
  /\ abortWait # -1 => abortWait = waited /\ abortWait = WaitPerAttempt * (attempt_count - 1)
  /\ abortWait = -1 => waited = WaitPerAttempt * attempt_count

C4_Witness ==
  /\ Len(sleeps) = 3
  /\ sleeps[3] = SleepMicros \div 1000
  /\ attempt_count = 3
  /\ pc = "open"


(***************************************************************************)
(* Batches and removals by prefix                                           *)
(***************************************************************************)
\* what a point read of key k observes
Observed(s, k) ==
  IF k \in DOMAIN s THEN [found |-> TRUE, value |-> s[k]]
  ELSE [found |-> FALSE, value |-> <<>>]

\* what the staged operations of b say about key k: the last of them on k decides
StagedEffect(b, k, before) ==
  LET on == {i \in 1..Len(b) : b[i].key = k}
  IN IF on = {} THEN before
     ELSE LET m == CHOOSE i \in on : \A j \in on : j <= i
          IN IF b[m].op = "Put" THEN [found |-> TRUE, value |-> b[m].value]
             ELSE [found |-> FALSE, value |-> <<>>]

\* p is a prefix of key k
IsPrefixOf(p, k) == Len(p) <= Len(k) /\ \A i \in 1..Len(p) : k[i] = p[i]

\* the reads of a store: containsKey, sizeOfPrefix, and a cursor opened on a prefix
SameReads(s, s2) ==
  /\ \A k \in KeySpace : Contains(s, k) = Contains(s2, k) /\ Observed(s, k) = Observed(s2, k)
  /\ \A p \in Prefixes \ {<<>>} :
       /\ SizeByPrefix(s, p) = SizeByPrefix(s2, p)
       /\ PrefixScan(NewIterator(s), p) = PrefixScan(NewIterator(s2), p)

\* C5: a step of dbBatchPerform that fails leaves the store as it was; one that
\* succeeds leaves, for every key, what the last operation staged on that key says
\* (the value of its Put, or absent after its Delete) and other keys as they were.
C5_CommitAllOrNothing ==
  [][last'.op = "dbBatchPerform" =>
       IF last'.ret = JNI_FALSE
         THEN store' = store
         ELSE \A k \in KeySpace :
                Observed(store', k) = StagedEffect(batch, k, Observed(store, k))]_vars

C5_Witness ==
  /\ last.op = "dbBatchPerform"
  /\ last.ret = JNI_FALSE
  /\ Len(batch) = 2
  /\ \E k \in KeySpace : StagedEffect(batch, k, Observed(store, k)) # Observed(store, k)

\* C6: a successful dbBatchPerform leaves the batch empty, so that a commit right
\* after it changes nothing; a failed one leaves the batch with the same operations
\* in the same order and raises the recoverable error (AssertionError).
C6_BatchAfterCommit ==
  [][last'.op = "dbBatchPerform" =>
       /\ IF last'.ret = JNI_TRUE
            THEN batch' = <<>> /\ last'.exc = NoException
            ELSE batch' = batch /\ last'.ret = JNI_FALSE /\ last'.exc = "AssertionError"
       /\ last.op = "dbBatchPerform" /\ last.ret = JNI_TRUE => store' = store]_vars

C6_Witness ==
  /\ last.op = "dbBatchPerform"
  /\ last.ret = JNI_FALSE
  /\ last.exc = "AssertionError"
  /\ Len(batch) = 2
  /\ batch[1].op = "Put"
  /\ batch[2].op = "Delete"

\* C7: a call aimed at the caller-held batch (a put with isBatch, dbBatchRemove,
\* dbBatchClear, a removal by prefix with a batch) leaves the store and every read
\* of it as they were; the same call aimed at the database shows in the store as
\* soon as it returns success.
C7_BatchStagesOnly ==
  [][/\ last'.target = "batch" /\ last'.op # "dbBatchPerform" =>
          store' = store /\ SameReads(store, store')
     /\ last'.target = "db" /\ last'.exc = NoException =>
          /\ last'.op = "dbPut" =>
               \A k \in KeySpace, v \in Values :
                 dbPut(FALSE, k, v, OkStatus) =>
                   Observed(store', k) = [found |-> TRUE, value |-> v]
          /\ last'.op = "dbRemove" =>
               \A k \in KeySpace :
                 (dbRemove(k, OkStatus) \/ dbRemove(k, NotFoundStatus)) =>
                   Contains(store', k) = JNI_FALSE
          /\ last'.op = "dbClear" => store' = <<>>
          /\ last'.op \in {"dbRemoveByPrefix", "dbRemoveByAnyPrefix"} =>
               \A i \in 1..Len(last'.prefixes) :
                 last'.prefixes[i] # <<>> =>
                   SizeByPrefix(store', last'.prefixes[i]) = 0]_vars

C7_Witness ==
  /\ last.op = "dbRemoveByPrefix"
  /\ last.target = "batch"
  /\ last.ret = 2
  /\ Len(batch) = 2
  /\ SizeByPrefix(store, last.prefixes[1]) = 2

\* the keys of store s that start with prefix p
Matching(s, p) == {k \in DOMAIN s : IsPrefixOf(p, k)}

\* b2 is b with exactly n Delete operations staged after it
StagedAfter(b, b2, n) ==
  /\ Len(b2) = Len(b) + n
  /\ SubSeq(b2, 1, Len(b)) = b
  /\ \A i \in (Len(b) + 1)..Len(b2) : b2[i].op = "Delete"

\* how many of the operations staged after b are a Delete of key k
DeletesOf(b, b2, k) == Cardinality({i \in (Len(b) + 1)..Len(b2) : b2[i] = DeleteOp(k)})

\* C9: a dbRemoveByPrefix that returns without an exception returns the number of
\* stored keys starting with the prefix; with no batch, no stored key starts with
\* the prefix afterwards and every other key keeps its value; with a batch, the
\* store is untouched and exactly one Delete per matching key is staged.
C9_RemoveByPrefix ==
  [][last'.op = "dbRemoveByPrefix" /\ last'.exc = NoException =>
       LET p == last'.prefixes[1]
           M == Matching(store, p)
       IN /\ p # <<>>
          /\ last'.ret = Cardinality(M)
          /\ IF last'.target = "db"
               THEN /\ DOMAIN store' = DOMAIN store \ M
                    /\ \A k \in DOMAIN store' : store'[k] = store[k]
                    /\ Matching(store', p) = {}
                    /\ batch' = batch
               ELSE /\ store' = store
                    /\ StagedAfter(batch, batch', Cardinality(M))
                    /\ \A k \in KeySpace :
                         DeletesOf(batch, batch', k) = IF k \in M THEN 1 ELSE 0]_vars

C9_Witness ==
  /\ last.op = "dbRemoveByPrefix"
  /\ last.target = "db"
  /\ last.exc = NoException
  /\ last.ret = 2
  /\ last.prefixes = <<(<<2>>)>>
  /\ DOMAIN store = {<<3>>}

\* the positions of a prefix array that hold a non-empty prefix matching key k
MatchingPrefixes(ps, k) == {i \in 1..Len(ps) : ps[i] # <<>> /\ IsPrefixOf(ps[i], k)}

\* C10: a dbRemoveByAnyPrefix that returns without an exception counts a key once
\* for every supplied non-empty prefix it starts with: the return value is the sum
\* of the per-prefix counts and each key is staged for Delete as many times as
\* prefixes match it; once written, exactly the matched keys are gone.
C10_RemoveByAnyPrefixOvercounts ==
  [][last'.op = "dbRemoveByAnyPrefix" /\ last'.exc = NoException =>
       LET ps == last'.prefixes
           pairs == {x \in (1..Len(ps)) \X DOMAIN store : x[1] \in MatchingPrefixes(ps, x[2])}
           M == {k \in DOMAIN store : MatchingPrefixes(ps, k) # {}}
       IN /\ last'.ret = Cardinality(pairs)
          /\ IF last'.target = "db"
               THEN /\ DOMAIN store' = DOMAIN store \ M
                    /\ \A k \in DOMAIN store' : store'[k] = store[k]
                    /\ batch' = batch
               ELSE /\ store' = store
                    /\ StagedAfter(batch, batch', Cardinality(pairs))
                    /\ \A k \in KeySpace :
                         DeletesOf(batch, batch', k) =
                           IF k \in DOMAIN store THEN Cardinality(MatchingPrefixes(ps, k))
                           ELSE 0]_vars

C10_Witness ==
  /\ last.op = "dbRemoveByAnyPrefix"
  /\ last.target = "batch"
  /\ last.prefixes = <<(<<2>>), (<<2, 3>>)>>
  /\ DOMAIN store = {<<2, 3, 1>>}
  /\ last.ret = 2
  /\ batch = <<DeleteOp(<<2, 3, 1>>), DeleteOp(<<2, 3, 1>>)>>

(***************************************************************************)
(* The prefix cursor                                                        *)
(***************************************************************************)
\* C8: the keys a cursor presents are keys of the store as it was when the cursor
\* was opened, all start with the prefix, come in strictly increasing bytewise
\* order without skipping a matching key, and when dbFind reports the end (0) they
\* are exactly the matching keys, whatever was written in between.
C8_CursorYieldsPrefixRange ==
  LET y == scan.yielded
      want == Matching(scan.store0, scan.prefix)
  IN /\ \A i \in 1..Len(y) : y[i] \in want
     /\ \A i \in 1..(Len(y) - 1) : KeyLess(y[i], y[i + 1])
     /\ \A i \in 1..Len(y) : \A k \in want :
          KeyLess(k, y[i]) => \E j \in 1..(i - 1) : y[j] = k
     /\ scan.done => {y[i] : i \in 1..Len(y)} = want
     /\ cursor.allocated => ~scan.done /\ Len(y) >= 1 /\ y[Len(y)] = IterKey(cursor.itr)

C8_Witness ==
  /\ scan.done
  /\ last.op = "dbFind"
  /\ last.ret = 0
  /\ Len(scan.yielded) = 1
  /\ scan.yielded[1] \notin DOMAIN store
  /\ \E k \in DOMAIN store \ DOMAIN scan.store0 : IsPrefixOf(scan.prefix, k)


(***************************************************************************)
(* Removals that match nothing, closing a cursor, the fatal diagnostic      *)
(***************************************************************************)
\* C11: a dbRemoveByPrefix or dbRemoveByAnyPrefix that finds no stored key under
\* its (non-empty) prefixes returns 0 without an exception, issues no write to the
\* engine, and leaves the store and the caller's batch exactly as they were, with
\* or without a batch.
C11_NoMatchNoWrite ==
  [][/\ last'.op \in {"dbRemoveByPrefix", "dbRemoveByAnyPrefix"}
     /\ \E i \in 1..Len(last'.prefixes) : last'.prefixes[i] # <<>>
     /\ \A i \in 1..Len(last'.prefixes) :
          last'.prefixes[i] # <<>> => Matching(store, last'.prefixes[i]) = {}
     => /\ last'.ret = 0
        /\ last'.exc = NoException
        /\ last'.writes = 0
        /\ store' = store
        /\ batch' = batch]_vars

C11_Witness ==
  /\ last.op = "dbRemoveByAnyPrefix"
  /\ last.target = "batch"
  /\ last.prefixes = <<(<<2, 3>>), (<<>>)>>
  /\ last.ret = 0
  /\ last.writes = 0
  /\ DOMAIN store = {<<2>>, <<3>>}
  /\ Len(batch) = 1

\* C12: closing a cursor is idempotent: whatever sequence of dbFind and
\* dbFindFinish calls the caller makes with a handle, delete runs at most once on
\* the cursor it names (and so on its engine iterator), a dbFindFinish on a cursor
\* that is already deleted does nothing, and the process goes on.
C12_CloseIdempotent ==
  /\ cursor.releases <= 1
  /\ ~Aborted
  /\ last.op = "dbFindFinish" /\ last.released = 1 => cursor.releases = 1

\* the text txt occurs in the message msg
HasText(msg, txt) ==
  \E i \in 0..(Len(msg) - Len(txt)) : SubSeq(msg, i + 1, i + Len(txt)) = txt

\* the diagnostic of the latest fatal report
Diagnostic ==
  IF hasHook THEN hookLog[Len(hookLog)] ELSE thrown[Len(thrown)]

\* C13: when dbOpen ends in failure after a structural open error, in the step
\* where the repair fails and in the step where the reopen fails, the diagnostic
\* given to the fatal report holds the text of the original open error and the
\* text of the status of the step that failed.
C13_DiagnosticHasBoth ==
  [][(pc = "repair" \/ pc = "reopen") /\ pc' = "done" /\ handle' = 0 =>
       LET failed == StatusText(status')
       IN /\ fatalCalls' = fatalCalls + 1
          /\ HasText(Diagnostic', error)
          /\ HasText(Diagnostic', failed)]_vars

\* C14: dbFind with no cursor, dbFindAll, dbFindByValue, dbGetSizeByPrefix and
\* dbRemoveByPrefix given an empty prefix raise IllegalArgumentException and
\* return their failure value having made no engine call: no iterator is taken,
\* nothing is written, and the store, the batch and the cursor are unchanged.
C14_EmptyPrefixRejected ==
  [][/\ last'.op \in {"dbFind", "dbFindAll", "dbFindByValue", "dbGetSizeByPrefix",
                      "dbRemoveByPrefix"}
     /\ last'.prefixes = <<(<<>>)>>
     => /\ last'.exc = "IllegalArgumentException"
        /\ last'.ret \in {0, -1}
        /\ last'.result = <<>>
        /\ last'.created = 0 /\ last'.released = 0 /\ last'.writes = 0
        /\ store' = store
        /\ batch' = batch
        /\ cursor' = cursor]_vars

C14_Witness ==
  /\ last.op = "dbRemoveByPrefix"
  /\ last.target = "batch"
  /\ last.prefixes = <<(<<>>)>>
  /\ last.exc = "IllegalArgumentException"
  /\ Len(batch) = 1
  /\ Cardinality(DOMAIN store) = 3
  /\ ~cursor.allocated


(***************************************************************************)
(* Typed values: round trip, malformed buffers, the outcomes of a lookup    *)
(***************************************************************************)
\* the read that asks for the type a put stored
ReadsBack(put, get) ==
  \/ put.op = "dbPut" /\ get.op = "dbGet" /\ get.type = put.type
  \/ put.op = "dbPutString" /\ get.op = "dbGet" /\ get.type = "jstring"
  \/ put.op = "dbPutArray" /\ get.op = "dbGetArray" /\ get.type = put.type
  \/ put.op = "dbPutStringArray" /\ get.op = "dbGetArray" /\ get.type = "jstring[]"

\* C15: a value put under a key and then read from that key with the same type
\* comes back equal and without an exception, for every scalar, fixed array,
\* string and string array; an empty string and an empty fixed array are stored
\* as zero bytes, as the unit value is, whose size reads back as 0; an empty
\* string array is stored as the four bytes of a zero count.
C15_RoundTrip ==
  [][/\ (/\ last.ret = JNI_TRUE
         /\ last'.key = last.key
         /\ last'.engine = "OK"
         /\ ReadsBack(last, last'))
        => (last'.ret = 1 /\ last'.result = last.arg /\ last'.raised = <<>>)
     /\ (/\ last.op = "dbPutVoid" /\ last.ret = JNI_TRUE
         /\ last'.op = "dbGetValueSize" /\ last'.key = last.key
         /\ last'.engine = "OK")
        => (last'.ret = 1 /\ last'.result = <<0, 0>> /\ last'.raised = <<>>)
     /\ (/\ last'.op \in {"dbPutVoid", "dbPutString", "dbPutArray"}
         /\ last'.ret = JNI_TRUE /\ last'.arg = <<>>)
        => store'[last'.key] = <<>>
     /\ (last'.op = "dbPutStringArray" /\ last'.ret = JNI_TRUE /\ last'.arg = <<>>)
        => store'[last'.key] = <<0, 0, 0, 0>>
    ]_vars

\* a string array holding a string and an empty string was put and read back
C15_Witness ==
  /\ last.op = "dbGetArray" /\ last.type = "jstring[]"
  /\ last.ret = 1 /\ last.result = <<<<97>>, <<>>>>
  /\ store[last.key] = StringArrayBytes(<<<<97>>, <<>>>>)

\* C16: a read of a string array never returns an array with an element left
\* unset: when the stored bytes end before the declared count of strings is
\* read, or a string length is negative, the read raises a value error and
\* returns null.
C16_NoUnsetElement ==
  (last.op = "dbGetArray" /\ last.type = "jstring[]" /\ last.ret = 1)
    => \A i \in DOMAIN last.result : last.result[i] # NullRef

\* the length of a stored byte string breaks the constraint of the type a read
\* asks for
WrongSize(call, bytes) ==
  \/ /\ call.op \in {"dbGet", "dbAs"} /\ call.type # "jstring"
     /\ Len(bytes) # SizeOf(call.type)
  \/ /\ call.op = "dbGet" /\ call.type = "jstring"
     /\ Len(bytes) % 2 # 0
  \/ /\ call.op = "dbAsString"
     /\ Len(bytes) % 2 # 0
  \/ /\ call.op \in {"dbGetArray", "dbAsArray"} /\ call.type # "jstring[]"
     /\ Len(bytes) % SizeOf(call.type) # 0
  \/ /\ call.op = "dbGetIntOrLong"
     /\ Len(bytes) \notin {4, 8}

\* C17: a typed read of a stored byte string whose length breaks the constraint
\* of the requested type (not sizeof(T) for a scalar, not a multiple of
\* sizeof(T) for a fixed array, odd for a string) raises a value error that
\* names the key read and returns the default (null for an array), never a
\* decoded value; for the point getters and for the typed reads of a cursor.
C17_SizeChecked ==
  LET onCursor == last.target = "cursor"
      bytes == IF onCursor THEN IterValue(cursor.itr) ELSE store[last.key]
      key == IF onCursor THEN IterKey(cursor.itr) ELSE last.key
  IN (/\ last.op \in {"dbGet", "dbGetIntOrLong", "dbGetArray", "dbAs", "dbAsArray",
                       "dbAsString"}
      /\ last.engine = "OK"
      /\ WrongSize(last, bytes))
       => /\ last.raised = <<"IllegalStateException">>
          /\ last.exc = "IllegalStateException"
          /\ last.named = key
          /\ last.ret = 0
          /\ last.result = last.arg

\* a cursor read an int from a value of five bytes
C17_Witness ==
  /\ last.op = "dbAs" /\ last.type = "jint"
  /\ cursor.allocated /\ Len(IterValue(cursor.itr)) = 5
  /\ last.raised = <<"IllegalStateException">>

\* C18: a point lookup reports its three outcomes apart: a missing key raises
\* at most the key-not-found signal, a stored value of the wrong size raises the
\* value error only, and a failed read of the engine raises the recoverable
\* error only, never the key-not-found signal, whatever throwIfError is.
C18_OutcomesDistinct ==
  last.op \in {"dbGet", "dbGetIntOrLong"}
    => /\ last.engine = "NotFound"
            => (last.raised = <<>> \/ last.raised = <<KEY_NOT_FOUND_EXCEPTION>>)
       /\ (last.engine = "OK" /\ WrongSize(last, store[last.key]))
            => last.raised = <<"IllegalStateException">>
       /\ last.engine = "IOError"
            => last.raised = <<"AssertionError">>


(***************************************************************************)
(* Scans by value and of all values                                         *)
(***************************************************************************)
\* the stored keys that start with p and hold exactly the bytes v
Holding(s, p, v) == {k \in Matching(s, p) : s[k] = v}

\* C19: dbFindByValue with a non-empty prefix returns the first key in byte
\* order that starts with the prefix and whose value equals the target byte
\* for byte, null when there is none; an empty target finds the keys holding
\* an empty value; it never returns a key outside the prefix and writes nothing.
C19_FirstKeyByValue ==
  (last.op = "dbFindByValue" /\ last.exc = NoException)
    => LET hits == Holding(store, last.prefixes[1], last.arg) IN
       /\ last.writes = 0
       /\ hits = {} => last.ret = 0
       /\ hits # {} => /\ last.ret = 1
                       /\ last.result \in hits
                       /\ \A k \in hits : k = last.result \/ KeyLess(last.result, k)

\* two keys of the prefix hold the empty target, a third key outside it does too
C19_Witness ==
  /\ last.op = "dbFindByValue" /\ last.ret = 1 /\ last.arg = <<>>
  /\ last.prefixes = <<<<2>>>>
  /\ Cardinality(Holding(store, <<2>>, <<>>)) = 2
  /\ <<3>> \in DOMAIN store

\* C20: dbFindAll with a non-empty prefix returns the values of the stored keys
\* that start with the prefix, one for each key and in key order, as many as
\* dbGetSizeByPrefix counts for the prefix; it returns null when no key starts
\* with the prefix, and it writes nothing.
C20_FindAllValues ==
  (last.op = "dbFindAll" /\ last.exc = NoException)
    => LET p == last.prefixes[1]
           keys == SortedKeys(Matching(store, p))
       IN /\ last.writes = 0
          /\ keys = <<>> => last.ret = 0
          /\ keys # <<>> => /\ last.ret = 1
                            /\ Len(last.result) = SizeByPrefix(store, p)
                            /\ \A i \in 1..Len(keys) : last.result[i] = store[keys[i]]


(***************************************************************************)
(* Clearing the store, key membership                                       *)
(***************************************************************************)
\* C21: dbClear stages one Delete for every stored key in a batch of its own and
\* writes it in one call: when it returns true the store holds no key, when the
\* write fails the store is as before and the recoverable error is raised; the
\* caller's batch is not touched.
C21_ClearAll ==
  [][last'.op = "dbClear" =>
       /\ last'.staged = Cardinality(DOMAIN store)
       /\ last'.writes = 1
       /\ batch' = batch
       /\ last'.ret = JNI_TRUE => (store' = <<>> /\ last'.exc = NoException)
       /\ last'.ret # JNI_TRUE =>
            (last'.ret = JNI_FALSE /\ store' = store /\ last'.exc = "AssertionError")
    ]_vars

\* a store of three keys was cleared
C21_Witness ==
  /\ last.op = "dbClear" /\ last.ret = JNI_TRUE
  /\ last.staged = 3
  /\ store = <<>>

\* C22: dbContains returns true exactly when the store holds the key itself; a
\* stored key that only starts with the argument, or that comes after it in key
\* order, does not make it true.
C22_ContainsExact ==
  last.op = "dbContains"
    => /\ last.ret = JNI_TRUE <=> last.key \in DOMAIN store
       /\ last.ret \in {JNI_TRUE, JNI_FALSE}
       /\ last.exc = NoException
       /\ last.writes = 0

\* the key asked for is not stored, a longer key that starts with it is
C22_Witness ==
  /\ last.op = "dbContains" /\ last.ret = JNI_FALSE
  /\ last.key = <<2, 3>>
  /\ <<2, 3, 1>> \in DOMAIN store


(***************************************************************************)
(* Cursor handles and engine iterators                                      *)
(***************************************************************************)
\* the cursor's iterator is on an entry whose key starts with the cursor's prefix
OnPrefixKey(c) == IterValid(c.itr) /\ IsPrefixOf(c.prefix, IterKey(c.itr))

\* C23: a live cursor is one whose handle dbFind returned, and its iterator is on
\* a key that starts with its prefix, so its key and value can be read; a dbFind
\* that returns a handle leaves such a cursor, and a dbFind that finds no valid
\* position returns 0 and leaves no live cursor.
C23_HandleMeansValid ==
  /\ cursor.allocated => (cursor.issued /\ OnPrefixKey(cursor))
  /\ last.op = "dbFind" =>
       /\ last.ret \in {0, CursorPtr}
       /\ last.ret = CursorPtr => (cursor.allocated /\ last.exc = NoException)
       /\ (last.ret = 0 /\ last.exc = NoException) => ~cursor.allocated

\* an advance returned the handle again: the cursor is on its second key
C23_Witness ==
  /\ last.op = "dbFind" /\ last.ret = CursorPtr /\ last.prefixes = <<>>
  /\ cursor.allocated /\ cursor.prefix = <<2>>
  /\ IterKey(cursor.itr) = <<2, 3, 1>>
  /\ <<2, 3, 1>> \notin DOMAIN store

\* the engine iterators owned by live cursors
Owned(c) == IF c.allocated THEN 1 ELSE 0

\* C24: no call leaks an engine iterator: a call takes as many iterators with
\* NewIterator as it deletes, but for the one a dbFind hands to the cursor it
\* returns and the one a cursor gives up when it is closed or exhausted; so the
\* iterators allocated are always those of the live cursors. (The close of a
\* cursor already destroyed is left aside.)
C24_NoIteratorLeak ==
  [][(last'.op # "dbFindFinish" \/ cursor.allocated)
       => last'.created - last'.released = Owned(cursor') - Owned(cursor)]_vars

\* C25: dbFindAll reads the bytes of a value only while the iterator is on the
\* entry the value came from: it reads no value through a reference taken from
\* an iterator that has since moved on or been deleted.
C25_ReadsWhilePositioned ==
  last.op = "dbFindAll" => last.stale = 0


RemovedIntoBatch(call) ==
  /\ call.op \in {"dbRemoveByPrefix", "dbRemoveByAnyPrefix"}
  /\ call.target = "batch"
  /\ call.exc = NoException

\* C27: a removal by prefix into the caller's batch scans the store only: a key
\* that is not stored gets no Delete and is not counted, also when the batch
\* holds a Put of it, so a commit that follows leaves that key present with the
\* value put although it starts with a removed prefix; and a Put staged last for
\* a key wins over a Delete staged before it when the batch is committed.
C27_ScanIgnoresBatch ==
  [][/\ RemovedIntoBatch(last') =>
          /\ last'.ret = Len(batch') - Len(batch)
          /\ \A k \in KeySpace \ DOMAIN store : DeletesOf(batch, batch', k) = 0
     /\ (RemovedIntoBatch(last) /\ last'.op = "dbBatchPerform" /\ last'.ret = JNI_TRUE) =>
          LET before == SubSeq(batch, 1, Len(batch) - last.ret) IN
          \A k \in KeySpace \ DOMAIN store :
            \A i \in 1..Len(before) :
              (before[i].key = k /\ before[i].op = "Put"
                 /\ \A j \in (i + 1)..Len(before) : before[j].key # k)
                => (k \in DOMAIN store' /\ store'[k] = before[i].value)
     /\ (/\ last.op = "dbPut" /\ last.target = "batch"
         /\ last'.op = "dbBatchPerform" /\ last'.ret = JNI_TRUE) =>
          LET put == batch[Len(batch)] IN
          put.key \in DOMAIN store' /\ store'[put.key] = put.value
    ]_vars

\* a Put of "ab1", not stored, is staged; the removal of prefix "a" into the same
\* batch counted and staged the stored "a" only
C27_Witness ==
  /\ last.op = "dbRemoveByPrefix" /\ last.target = "batch"
  /\ last.prefixes = <<<<2>>>>
  /\ last.ret = 1
  /\ DOMAIN store = {<<2>>}
  /\ batch = <<PutOp(<<2, 3, 1>>, <<1>>), DeleteOp(<<2>>)>>


====
